---------------------------- MODULE Spec2Model ----------------------------
(***************************************************************************)
(* Model of src/src/etl_pipeline.py: the traffic-volume ETL.               *)
(*                                                                         *)
(*   map_suburb_2_site   site table -> selected site ids                   *)
(*   process_csv_file    one daily CSV -> cleaned, hourly, long table      *)
(*   process_zip_file    nested yearly archive -> concatenated table       *)
(*   main                one output file per yearly archive                *)
(*                                                                         *)
(* Three specifications share the variables:                               *)
(*   SpecSites  applies map_suburb_2_site to a bounded set of site tables  *)
(*   SpecCsv    applies process_csv_file to a bounded set of CSV tables    *)
(*   Spec       runs main over a bounded set of input directories          *)
(***************************************************************************)
EXTENDS Integers, Sequences, FiniteSets, TLC

VARIABLES
    site_df,         \* SpecSites: the table read at line 68
    selected_sites,  \* the Series returned by map_suburb_2_site
    csv_file,        \* SpecCsv: the table read at line 80
    df,              \* SpecCsv: what process_csv_file returned / raised
    pc,              \* position of the running function
    zip_paths,       \* main: sorted(DATA_DIR.glob("*.zip")), line 155
    zi,              \* main: index of the archive of the current iteration
    parent_zip,      \* process_zip_file: entry names of the open yearly archive
    outer_names,     \* process_zip_file: sorted(parent_zip.namelist()), line 132
    oi,              \* process_zip_file: index of the current outer entry
    child_zip,       \* process_zip_file: entries of the open inner archive
    inner_names,     \* process_zip_file: sorted(child_zip.namelist()), line 138
    ii,              \* process_zip_file: index of the current inner entry
    dfs,             \* process_zip_file: the accumulator of line 129
    opened,          \* history: .csv entries of the inner archives opened in the run
    seen,            \* history, per walk: the entries of the inner archives opened
    calls,           \* history, per walk: <<outer name, inner name>> of each CSV
                     \* processed (the log of line 143)
    returned,        \* history: year -> table process_zip_file returned
    walk,            \* history: year -> "walking" | "returned" | "raised"
    files,           \* OUTPUT_DIR: year -> table written by to_parquet
    error            \* the exception that ended main, or "none"

vars == <<site_df, selected_sites, csv_file, df, pc, zip_paths, zi, parent_zip,
          outer_names, oi, child_zip, inner_names, ii, dfs, opened, seen,
          calls, returned, walk, files, error>>

sitesVars == <<site_df>>
csvVars   == <<csv_file, df>>
mainVars  == <<zip_paths, zi, parent_zip, outer_names, oi, child_zip,
               inner_names, ii, dfs, opened, seen, calls, returned, walk, files,
               error>>

(***************************************************************************)
(* Bounds of the model.                                                    *)
(***************************************************************************)
NumVolCols == 5   \* volume columns of a CSV (96 in the field data)
MaxRows    == 2   \* rows of a multi-row CSV
MaxSites   == 2   \* rows of a site table
MaxZips    == 2   \* yearly archives in DATA_DIR
MaxCsv     == 3   \* .csv entries of the archives of DATA_DIR, all together

(***************************************************************************)
(* Values.                                                                 *)
(***************************************************************************)
NaN    == [isna |-> TRUE, val |-> 0]
Num(v) == [isna |-> FALSE, val |-> v]

\* numpy's integer cast to int16 keeps the low 16 bits (two's complement).
Int16(x) == ((x + 32768) % 65536) - 32768

\* Series.isin(values): membership among the elements of values.
isin(x, values) == \E i \in DOMAIN values : values[i] = x

RECURSIVE Flatten(_)
\* pd.concat(list, ignore_index=True) of tables with the same columns.
Flatten(tables) ==
    IF tables = <<>> THEN <<>> ELSE Head(tables) \o Flatten(Tail(tables))

(***************************************************************************)
(* process_csv_file, lines 76-124.                                         *)
(***************************************************************************)
HOURS    == 24
QUARTERS == 4

\* pd.to_datetime on the strings of the model; any other string raises.
DateOf == [s \in {"2024-01-01", "2024-01-02"} |->
              IF s = "2024-01-01" THEN <<2024, 1, 1>> ELSE <<2024, 1, 2>>]
Parseable(s) == s \in DOMAIN DateOf
to_datetime(s) == DateOf[s]

\* Lines 83-92: drop the three unused columns, rename the four key columns.
\* A raw row carries its volume columns, in file order, as the sequence V.
rename(raw) ==
    [site_id              |-> raw.NB_SCATS_SITE,
     datetime             |-> raw.QT_INTERVAL_COUNT,
     detector_id          |-> raw.NB_DETECTOR,
     working_period_count |-> raw.CT_RECORDS,
     V                    |-> raw.V]

\* The filter of line 95 left out.
NotFiltered(row, sites) == TRUE

\* Line 95.
InSelected(row, sites) == isin(row.site_id, sites)

\* Line 100 written with >= in place of >.
AnyNonNegative(row) ==
    \E j \in DOMAIN row.V : ~row.V[j].isna /\ row.V[j].val >= 0

\* Line 100: (df[volume_cols] > 0).any(axis=1); NaN > 0 is False.
AnyPositive(row) ==
    \E j \in DOMAIN row.V : ~row.V[j].isna /\ row.V[j].val > 0

\* Line 103: fillna(0); the volume cells become plain numbers.
fillna(row) ==
    [row EXCEPT !.V = [j \in DOMAIN row.V |->
                          IF row.V[j].isna THEN 0 ELSE row.V[j].val]]

\* Lines 105-107: the count column loses one per negative cell (the int8
\* column minus the int64 row sums is an int64 column: no wrap-around), the
\* negative cells become 0.
NegCount(row) == Cardinality({j \in DOMAIN row.V : row.V[j] < 0})

correct(row) ==
    [row EXCEPT !.working_period_count = @ - NegCount(row),
                !.V = [j \in DOMAIN row.V |->
                          IF row.V[j] < 0 THEN 0 ELSE row.V[j]]]

\* Lines 110-111: datetime parsed, volume cells cast to int16.
convert(row) ==
    [row EXCEPT !.datetime = to_datetime(@),
                !.V = [j \in DOMAIN row.V |-> Int16(row.V[j])]]

\* Line 114: volume_cols[h*4 : (h+1)*4] for h in range(24), summed per row.
\* A Python slice is clipped to the columns that exist; the frame sum of
\* int16 columns is computed in int64.  h is the output hour, 1..24.
HourCols(h, ncols) ==
    {j \in 1..ncols : (h - 1) * QUARTERS < j /\ j <= h * QUARTERS}

RECURSIVE SumCols(_, _)
SumCols(V, cols) ==
    IF cols = {} THEN 0
    ELSE LET j == CHOOSE k \in cols : TRUE
         IN  V[j] + SumCols(V, cols \ {j})

hourly_vol(row, h) == SumCols(row.V, HourCols(h, Len(row.V)))

\* Line 114 naming the hourly columns f"{h}": hours 0..23.
melt_zero_based(rows) ==
    LET n == Len(rows)
    IN  [p \in 1..(HOURS * n) |->
            LET h == ((p - 1) \div n) + 1
                r == rows[((p - 1) % n) + 1]
            IN  [datetime             |-> r.datetime,
                 hour                 |-> ToString(h - 1),
                 site_id              |-> r.site_id,
                 detector_id          |-> r.detector_id,
                 volume               |-> hourly_vol(r, h),
                 working_period_count |-> r.working_period_count]]

\* Lines 119-124: melt lists, for each hourly column in turn, every row.
melt(rows) ==
    LET n == Len(rows)
    IN  [p \in 1..(HOURS * n) |->
            LET h == ((p - 1) \div n) + 1
                r == rows[((p - 1) % n) + 1]
            IN  [datetime             |-> r.datetime,
                 hour                 |-> ToString(h),
                 site_id              |-> r.site_id,
                 detector_id          |-> r.detector_id,
                 volume               |-> hourly_vol(r, h),
                 working_period_count |-> r.working_period_count]]

\* The rows that reach line 102.
surviving(csv, sites) ==
    SelectSeq([i \in DOMAIN csv |-> rename(csv[i])],
              LAMBDA row : InSelected(row, sites) /\ AnyPositive(row))

\* The whole function: a table, or the exception of line 110.
process_csv_file(csv, sites) ==
    LET kept == surviving(csv, sites)
    IN  IF \E i \in DOMAIN kept : ~Parseable(kept[i].datetime)
        THEN [ok |-> FALSE, rows |-> <<>>]
        ELSE [ok |-> TRUE,
              rows |-> melt([i \in DOMAIN kept |->
                               convert(correct(fillna(kept[i])))])]


(***************************************************************************)
(* map_suburb_2_site, lines 62-74.                                         *)
(***************************************************************************)
SELECTED_SUBURBS ==
    {"East Melbourne", "Richmond", "Cremorne", "Jolimont", "Melbourne",
     "South Yarra", "Southbank", "South Melbourne", "Fitzroy", "Collingwood"}

\* Line 70 comparing the suburb names without regard to case.
map_suburb_2_site_nocase(table) ==
    LET hit == SelectSeq(table, LAMBDA r : r.suburb \in SELECTED_SUBURBS \cup {"richmond"})
    IN  [i \in DOMAIN hit |-> Int16(hit[i].site_id)]

\* Line 70: the site_id of the rows whose suburb is in the list, in table
\* order, cast to int16.
map_suburb_2_site(table) ==
    LET hit == SelectSeq(table, LAMBDA r : r.suburb \in SELECTED_SUBURBS)
    IN  [i \in DOMAIN hit |-> Int16(hit[i].site_id)]

(***************************************************************************)
(* Inputs of the model.                                                    *)
(***************************************************************************)
SiteIds == {100, 200, 300}

\* Suburb values in the order sort_values (line 44) gives them: byte order,
\* the missing value (an empty field) last.
SuburbOrder == <<"Carlton", "Richmond", "Southbank", "richmond", "">>

SuburbRank(s) == CHOOSE i \in DOMAIN SuburbOrder : SuburbOrder[i] = s

SiteRows == [site_id : SiteIds, suburb : {SuburbOrder[i] : i \in DOMAIN SuburbOrder}]

\* Lines 44-47 write the site table sorted by (suburb, site_id); a site
\* number occurs in one row.
SiteBefore(a, b) ==
    \/ SuburbRank(a.suburb) < SuburbRank(b.suburb)
    \/ SuburbRank(a.suburb) = SuburbRank(b.suburb) /\ a.site_id < b.site_id

SiteTables ==
    UNION {{t \in [1..n -> SiteRows] :
               \A i, j \in 1..n : i < j => SiteBefore(t[i], t[j]) /\ t[i].site_id # t[j].site_id}
           : n \in 0..MaxSites}

CellValues == {NaN, Num(-1), Num(0), Num(1), Num(32768)}

\* One-row CSVs over every combination of cells.
CellRows ==
    [NB_SCATS_SITE : {100}, QT_INTERVAL_COUNT : {"2024-01-01"},
     NB_DETECTOR : {1}, CT_RECORDS : {1, 96},
     V : [1..NumVolCols -> CellValues]]

\* Rows of the multi-row CSVs: every combination of keys over two volume
\* patterns (no signal; a negative first cell before positive cells).
KeyRows ==
    [NB_SCATS_SITE : {100, 200}, QT_INTERVAL_COUNT : {"2024-01-01", "n/a"},
     NB_DETECTOR : {1, 2}, CT_RECORDS : {96},
     V : {[j \in 1..NumVolCols |-> Num(0)],
          [j \in 1..NumVolCols |-> IF j = 1 THEN Num(-1) ELSE Num(j)]}]

KeyTables == UNION {[1..n -> KeyRows] : n \in 0..MaxRows}

SiteSeries == {<<>>, <<100>>, <<200>>, <<100, 200>>}

(***************************************************************************)
(* Values of the variables a specification does not use.                   *)
(***************************************************************************)
SitesIdle == site_df = <<>>
CsvIdle   == csv_file = <<>> /\ df = [ok |-> TRUE, rows |-> <<>>]
MainIdle  ==
    /\ zip_paths = <<>> /\ zi = 0
    /\ parent_zip = {} /\ outer_names = <<>> /\ oi = 0
    /\ child_zip = {} /\ inner_names = <<>> /\ ii = 0
    /\ dfs = <<>> /\ opened = 0 /\ seen = {} /\ calls = <<>>
    /\ returned = <<>> /\ walk = <<>> /\ files = <<>>
    /\ error = "none"

(***************************************************************************)
(* SpecSites: map_suburb_2_site on every site table of the model.          *)
(***************************************************************************)
InitSites ==
    /\ pc = "sites_call"
    /\ site_df \in SiteTables
    /\ selected_sites = <<>>
    /\ CsvIdle /\ MainIdle

MapSuburb2Site ==
    /\ pc = "sites_call"
    /\ selected_sites' = map_suburb_2_site(site_df)
    /\ pc' = "sites_done"
    /\ UNCHANGED <<sitesVars, csvVars, mainVars>>

NextSites == MapSuburb2Site

SpecSites == InitSites /\ [][NextSites]_vars

(***************************************************************************)
(* SpecCsv: process_csv_file on every CSV table of the model.              *)
(***************************************************************************)
InitCsv ==
    /\ pc = "csv_call"
    /\ \/ csv_file \in {<<r>> : r \in CellRows} /\ selected_sites = <<100>>
       \/ csv_file \in KeyTables /\ selected_sites \in SiteSeries
    /\ df = [ok |-> TRUE, rows |-> <<>>]
    /\ SitesIdle /\ MainIdle

ProcessCsvFile ==
    /\ pc = "csv_call"
    /\ df' = process_csv_file(csv_file, selected_sites)
    /\ pc' = "csv_done"
    /\ UNCHANGED <<csv_file, selected_sites, sitesVars, mainVars>>

NextCsv == ProcessCsvFile

SpecCsv == InitCsv /\ [][NextCsv]_vars


(***************************************************************************)
(* Names.  A name is the sequence of its characters; sorted() orders names *)
(* by code point, character by character.                                  *)
(***************************************************************************)
Ascii == <<".", "0", "1", "2", "3", "a", "b", "c", "i", "p", "s", "t", "v", "x", "z">>

Ord(c) == CHOOSE i \in DOMAIN Ascii : Ascii[i] = c

RECURSIVE LexLess(_, _)
LexLess(a, b) ==
    IF a = <<>> THEN b # <<>>
    ELSE IF b = <<>> THEN FALSE
    ELSE IF Head(a) = Head(b) THEN LexLess(Tail(a), Tail(b))
    ELSE Ord(Head(a)) < Ord(Head(b))

RECURSIVE Insert(_, _)
Insert(x, s) ==
    IF s = <<>> THEN <<x>>
    ELSE IF LexLess(x, Head(s)) THEN <<x>> \o s
    ELSE <<Head(s)>> \o Insert(x, Tail(s))

\* The names taken in the order the archive lists them.
unsorted(names) == names

RECURSIVE sorted(_)
\* Python's sorted() on a list of names.
sorted(names) ==
    IF names = <<>> THEN <<>> ELSE Insert(Head(names), sorted(Tail(names)))

\* str.endswith.
endswith(name, suffix) ==
    /\ Len(name) >= Len(suffix)
    /\ SubSeq(name, Len(name) - Len(suffix) + 1, Len(name)) = suffix

CSV_SUFFIX == <<".", "c", "s", "v">>

\* Line 157: zip_path.stem[-4:].
YearOf(stem) ==
    IF Len(stem) <= 4 THEN stem ELSE SubSeq(stem, Len(stem) - 3, Len(stem))

(***************************************************************************)
(* The files of the model.                                                 *)
(***************************************************************************)
Digits == <<"0", "1", "2", "3">>

\* Stems of the yearly archives: v2020, v2021, ...
ZipStem(k) == <<"v", "2", "0", "2", Digits[k]>>

\* The contents of DATA_DIR: the archives of the first n years.
Directories == {{ZipStem(k) : k \in 1..n} : n \in 0..MaxZips}

OuterNames == {<<"a", ".", "z", "i", "p">>, <<"b", ".", "z", "i", "p">>}

InnerNames == {<<"a", ".", "c", "s", "v">>, <<"b", ".", "c", "s", "v">>,
               <<"a", ".", "t", "x", "t">>}

\* The orders in which a directory or an archive may list a set of names.
Listings(S) ==
    {l \in [1..Cardinality(S) -> S] : \A i, j \in DOMAIN l : i # j => l[i] # l[j]}

DayCsv(date) ==
    <<[NB_SCATS_SITE |-> 100, QT_INTERVAL_COUNT |-> date, NB_DETECTOR |-> 1,
       CT_RECORDS |-> 96, V |-> [j \in 1..NumVolCols |-> Num(j)]]>>

\* Daily CSVs of two days, and one whose date does not parse.
CsvFiles == {DayCsv("2024-01-01"), DayCsv("2024-01-02"), DayCsv("n/a")}

\* The inner archives with entries of the names in S: a .csv entry holds
\* one of the CSV files, the content of another entry is not read.
ChildZips(S) ==
    {{[name |-> n, data |-> d[n]] : n \in S} :
        d \in {c \in [S -> CsvFiles \cup {<<>>}] :
                  \A n \in S : (c[n] = <<>>) <=> ~endswith(n, CSV_SUFFIX)}}

CsvCount(entries) == Cardinality({e \in entries : endswith(e.name, CSV_SUFFIX)})

\* Site tables of the runs of main: the sites of the CSV files.
MainSiteTables == {t \in SiteTables : \A i \in DOMAIN t : t[i].site_id = 100}

(***************************************************************************)
(* main and process_zip_file, lines 126-165.                               *)
(***************************************************************************)
Put(f, k, v) == [x \in DOMAIN f \cup {k} |-> IF x = k THEN v ELSE f[x]]

zip_path == zip_paths[zi]
year     == YearOf(zip_path)

\* The exception handled by writing what has been accumulated so far.
RaiseAndSave(e) ==
    /\ pc' = "crashed"
    /\ error' = e
    /\ walk' = Put(walk, year, "raised")
    /\ files' = Put(files, year, Flatten(dfs))
    /\ UNCHANGED <<site_df, selected_sites, csv_file, df, zip_paths, zi,
                   parent_zip, outer_names, oi, child_zip, inner_names, ii,
                   dfs, opened, seen, calls, returned>>

\* An exception leaves process_zip_file and, uncaught in main, ends the run.
Raise(e) ==
    /\ pc' = "crashed"
    /\ error' = e
    /\ walk' = Put(walk, year, "raised")
    /\ UNCHANGED <<site_df, selected_sites, csv_file, df, zip_paths, zi,
                   parent_zip, outer_names, oi, child_zip, inner_names, ii,
                   dfs, opened, seen, calls, returned, files>>

Init ==
    /\ pc = "main"
    /\ selected_sites = <<>>
    /\ SitesIdle /\ CsvIdle /\ MainIdle

\* Line 152.
Main_SelectSites ==
    /\ pc = "main"
    /\ \E table \in MainSiteTables : selected_sites' = map_suburb_2_site(table)
    /\ pc' = "glob"
    /\ UNCHANGED <<sitesVars, csvVars, mainVars>>

\* Line 155: the directory lists its archives in some order.
Main_Glob ==
    /\ pc = "glob"
    /\ \E dir \in Directories : \E listing \in Listings(dir) :
          zip_paths' = sorted(listing)
    /\ pc' = "loop"
    /\ UNCHANGED <<site_df, selected_sites, csv_file, df, zi, parent_zip,
                   outer_names, oi, child_zip, inner_names, ii, dfs, opened,
                   seen, calls, returned, walk, files, error>>

\* Lines 155-159: the next archive, or the end of main.
Main_NextZip ==
    /\ pc = "loop"
    /\ IF zi < Len(zip_paths)
       THEN /\ zi' = zi + 1
            /\ walk' = Put(walk, YearOf(zip_paths[zi + 1]), "walking")
            /\ pc' = "zip_open"
       ELSE /\ pc' = "done"
            /\ UNCHANGED <<zi, walk>>
    /\ UNCHANGED <<site_df, selected_sites, csv_file, df, zip_paths, parent_zip,
                   outer_names, oi, child_zip, inner_names, ii, dfs, opened,
                   seen, calls, returned, files, error>>

\* Lines 129-132: a fresh accumulator; the archive opens or is no zip file.
Zip_Open ==
    /\ pc = "zip_open"
    /\ \/ Raise("BadZipFile")
       \/ /\ \E S \in SUBSET OuterNames : \E namelist \in Listings(S) :
                /\ parent_zip' = S
                /\ outer_names' = sorted(namelist)
          /\ oi' = 0
          /\ dfs' = <<>>
          /\ seen' = {}
          /\ calls' = <<>>
          /\ pc' = "outer_loop"
          /\ UNCHANGED <<site_df, selected_sites, csv_file, df, zip_paths, zi,
                         child_zip, inner_names, ii, opened, returned, walk,
                         files, error>>

\* Lines 132-138: the next outer entry is read and opened as a zip file.
Zip_NextChild ==
    /\ pc = "outer_loop"
    /\ IF oi = Len(outer_names)
       THEN /\ pc' = "concat"
            /\ UNCHANGED <<site_df, selected_sites, csv_file, df, zip_paths, zi,
                           parent_zip, outer_names, oi, child_zip, inner_names,
                           ii, dfs, opened, seen, calls, returned, walk, files,
                           error>>
       ELSE \/ Raise("BadZipFile")
            \/ /\ \E S \in SUBSET InnerNames : \E zip \in ChildZips(S) :
                  \E namelist \in Listings(S) :
                     /\ opened + CsvCount(zip) <= MaxCsv
                     /\ opened' = opened + CsvCount(zip)
                     /\ child_zip' = zip
                     /\ inner_names' = sorted(namelist)
                     /\ seen' = seen \cup
                           {[outer |-> outer_names[oi + 1], name |-> e.name,
                             data |-> e.data] : e \in zip}
               /\ oi' = oi + 1
               /\ ii' = 0
               /\ pc' = "inner_loop"
               /\ UNCHANGED <<site_df, selected_sites, csv_file, df, zip_paths, zi,
                              parent_zip, outer_names, dfs, calls, returned, walk,
                              files, error>>

\* child_zip.open(csv_name): the bytes of the entry of that name.
EntryData(name) == (CHOOSE e \in child_zip : e.name = name).data

\* Lines 138-145: the next inner entry; a .csv entry is processed and its
\* table appended, any other entry is passed over.
Zip_NextEntry ==
    /\ pc = "inner_loop"
    /\ IF ii = Len(inner_names)
       THEN \* the with block of line 137 closes the inner archive
            /\ pc' = "outer_loop"
            /\ child_zip' = {}
            /\ inner_names' = <<>>
            /\ ii' = 0
            /\ UNCHANGED <<site_df, selected_sites, csv_file, df, zip_paths, zi,
                           parent_zip, outer_names, oi, dfs, opened, seen, calls,
                           returned, walk, files, error>>
       ELSE LET csv_name == inner_names[ii + 1]
                result   == process_csv_file(EntryData(csv_name), selected_sites)
            IN  IF ~endswith(csv_name, CSV_SUFFIX)
                THEN /\ ii' = ii + 1
                     /\ UNCHANGED <<site_df, selected_sites, csv_file, df, pc,
                                    zip_paths, zi, parent_zip, outer_names, oi,
                                    child_zip, inner_names, dfs, opened, seen,
                                    calls, returned, walk, files, error>>
                ELSE IF ~result.ok
                THEN Raise("ParseError")
                ELSE /\ ii' = ii + 1
                     /\ dfs' = Append(dfs, result.rows)
                     /\ calls' = Append(calls, <<outer_names[oi], csv_name>>)
                     /\ UNCHANGED <<site_df, selected_sites, csv_file, df, pc,
                                    zip_paths, zi, parent_zip, outer_names, oi,
                                    child_zip, inner_names, opened, seen,
                                    returned, walk, files, error>>

\* Line 148: pd.concat raises ValueError on an empty list.
Zip_Concat ==
    /\ pc = "concat"
    /\ IF dfs = <<>>
       THEN Raise("ValueError")
       ELSE \* the function returns: its locals are gone
            /\ returned' = Put(returned, year, Flatten(dfs))
            /\ walk' = Put(walk, year, "returned")
            /\ pc' = "save"
            /\ parent_zip' = {}
            /\ outer_names' = <<>>
            /\ oi' = 0
            /\ dfs' = <<>>
            /\ UNCHANGED <<site_df, selected_sites, csv_file, df, zip_paths, zi,
                           child_zip, inner_names, ii, opened, seen, calls, files,
                           error>>

\* Lines 161-165.
Main_Save ==
    /\ pc = "save"
    /\ files' = Put(files, year, returned[year])
    /\ pc' = "loop"
    /\ seen' = {}
    /\ calls' = <<>>
    /\ UNCHANGED <<site_df, selected_sites, csv_file, df, zip_paths, zi,
                   parent_zip, outer_names, oi, child_zip, inner_names, ii,
                   dfs, opened, returned, walk, error>>

Next ==
    \/ Main_SelectSites
    \/ Main_Glob
    \/ Main_NextZip
    \/ Zip_Open
    \/ Zip_NextChild
    \/ Zip_NextEntry
    \/ Zip_Concat
    \/ Main_Save

Spec == Init /\ [][Next]_vars

(***************************************************************************)
(* Properties of map_suburb_2_site (SpecSites).                            *)
(***************************************************************************)
Elements(series) == {series[i] : i \in DOMAIN series}

QualifyingSites == {site_df[i].site_id : i \in {j \in DOMAIN site_df :
                        site_df[j].suburb \in SELECTED_SUBURBS}}

Returned == pc = "csv_done" /\ df.ok

RECURSIVE SumSeq(_)
SumSeq(s) == IF s = <<>> THEN 0 ELSE Head(s) + SumSeq(Tail(s))

\* What the claims say of a raw row.
RawPositive(raw) == \E j \in 1..Len(raw.V) : raw.V[j] \notin {NaN} /\ raw.V[j].val >= 1
RawNegatives(raw) == {j \in 1..Len(raw.V) : raw.V[j] \notin {NaN} /\ raw.V[j].val <= -1}
CorrectedCell(c) == IF c = NaN \/ c.val <= -1 THEN 0 ELSE c.val
Wanted(raw) == (\E s \in Elements(selected_sites) : s = raw.NB_SCATS_SITE) /\ RawPositive(raw)

\* The source rows the claims call surviving, in file order.
RECURSIVE SurvivorsFrom(_)
SurvivorsFrom(i) ==
    IF i > Len(csv_file) THEN <<>>
    ELSE (IF Wanted(csv_file[i]) THEN <<csv_file[i]>> ELSE <<>>) \o SurvivorsFrom(i + 1)

Survivors == SurvivorsFrom(1)

\* The output row of the k-th surviving source row for hour h.
OutRow(k, h) == df.rows[(h - 1) * Len(Survivors) + k]

HourCells(raw, h) ==
    [q \in 1..QUARTERS |->
        \* a CSV of the model has fewer than 96 volume columns: the cells of
        \* the columns it lacks count 0
        IF 4 * (h - 1) + q <= Len(raw.V)
        THEN CorrectedCell(raw.V[4 * (h - 1) + q]) ELSE 0]

\* C4 (as claimed): every output row of a surviving row with k negative
\* cells and count w reports w - k, unclamped, and no output volume is
\* negative.
C4_NegativeCorrection ==
    Returned =>
        /\ Len(df.rows) = HOURS * Len(Survivors)
        /\ \A k \in DOMAIN Survivors : \A h \in 1..HOURS :
              /\ OutRow(k, h).working_period_count =
                    Survivors[k].CT_RECORDS - Cardinality(RawNegatives(Survivors[k]))
              /\ OutRow(k, h).volume >= 0

\* C5: a source row of a selected site contributes output rows exactly when
\* one of its raw cells is strictly positive: the rows of the first hour
\* are, in file order, those source rows and no others.
C5_RawFilter ==
    Returned =>
        /\ Len(df.rows) = HOURS * Len(Survivors)
        /\ \A k \in DOMAIN Survivors :
              /\ df.rows[k].site_id = Survivors[k].NB_SCATS_SITE
              /\ df.rows[k].detector_id = Survivors[k].NB_DETECTOR
        /\ ((\A i \in DOMAIN csv_file : ~RawPositive(csv_file[i])) => df.rows = <<>>)

\* A row with exactly one positive cell, the others missing or negative,
\* has produced its 24 rows.
C5_Witness ==
    /\ Returned
    /\ Len(csv_file) = 1
    /\ Cardinality({j \in 1..NumVolCols : csv_file[1].V[j] = Num(1)}) = 1
    /\ \E j \in 1..NumVolCols : csv_file[1].V[j] = NaN
    /\ \E j \in 1..NumVolCols : csv_file[1].V[j] = Num(-1)
    /\ \A j \in 1..NumVolCols : csv_file[1].V[j] \in {NaN, Num(-1), Num(1)}
    /\ Len(df.rows) = HOURS

\* C6 (as claimed): the volume of hour h is the sum of the four corrected
\* cells of that hour, and the 24 volumes of a row add up to the sum of its
\* corrected cells.
C6_Aggregation ==
    Returned =>
        /\ Len(df.rows) = HOURS * Len(Survivors)
        /\ \A k \in DOMAIN Survivors :
              /\ \A h \in 1..HOURS :
                    OutRow(k, h).volume = SumSeq(HourCells(Survivors[k], h))
              /\ SumSeq([h \in 1..HOURS |-> OutRow(k, h).volume]) =
                    SumSeq([j \in 1..Len(Survivors[k].V) |->
                               CorrectedCell(Survivors[k].V[j])])

\* C7: every surviving source row has exactly 24 output rows, one per hour
\* 1..24, all with the row's datetime, site_id, detector_id and corrected
\* working_period_count; the table has 24 rows per surviving row.
C7_FanOut ==
    Returned =>
        /\ Len(df.rows) = 24 * Len(Survivors)
        /\ \A k \in DOMAIN Survivors :
              /\ \A h \in 1..24 :
                    /\ OutRow(k, h).hour = ToString(h)
                    /\ OutRow(k, h).datetime = to_datetime(Survivors[k].QT_INTERVAL_COUNT)
                    /\ OutRow(k, h).site_id = Survivors[k].NB_SCATS_SITE
                    /\ OutRow(k, h).detector_id = Survivors[k].NB_DETECTOR
                    /\ OutRow(k, h).working_period_count = OutRow(k, 1).working_period_count
              /\ OutRow(k, 1).working_period_count =
                    Survivors[k].CT_RECORDS - Cardinality(RawNegatives(Survivors[k]))

\* Two rows with different keys have both survived, next to none that did not.
C7_Witness ==
    /\ Returned
    /\ Len(csv_file) = MaxRows
    /\ Len(Survivors) = 2
    /\ Survivors[1].NB_DETECTOR # Survivors[2].NB_DETECTOR
    /\ Survivors[1].NB_SCATS_SITE # Survivors[2].NB_SCATS_SITE
    /\ Len(df.rows) = 48

C10_StateInv ==
    Returned =>
        /\ \A p \in DOMAIN df.rows : df.rows[p].site_id \in Elements(selected_sites)
        /\ Len(df.rows) = HOURS * Len(Survivors)
        /\ (selected_sites = <<>> => df.rows = <<>>)

\* C10: every output row has a site_id of the selected sites, a source row
\* of another site contributes nothing whatever its volumes, an empty
\* selection gives an empty table, and the call leaves the selection as
\* it was.
C10_SiteFilter == [](C10_StateInv) /\ [][selected_sites' = selected_sites]_vars

\* A CSV with a busy row of a selected site and a busy row of another site.
C10_Witness ==
    /\ Returned
    /\ df.rows # <<>>
    /\ \E i \in DOMAIN csv_file :
          /\ csv_file[i].NB_SCATS_SITE \notin Elements(selected_sites)
          /\ RawPositive(csv_file[i])


(***************************************************************************)
(* Properties of process_zip_file and main (Spec).                         *)
(***************************************************************************)
CsvEntries == {e \in seen : endswith(e.name, CSV_SUFFIX)}

\* The walk of the current archive went through every entry.
WalkComplete == pc \in {"concat", "save"} \/ (pc = "crashed" /\ error = "ValueError")

\* C1 (as claimed): a walk that went through an archive without any .csv
\* entry ends normally and returns an empty table.
C1_EmptyArchive ==
    (WalkComplete /\ pc # "concat" /\ CsvEntries = {}) =>
        /\ pc = "save"
        /\ error = "none"
        /\ returned[year] = <<>>

\* C2 (as claimed): when main has ended, every archive of the directory
\* has been walked, whatever happened to the archives before it, and
\* every table returned has been written.
C2_LaterYearsAttempted ==
    pc \in {"done", "crashed"} =>
        \A i \in DOMAIN zip_paths :
            /\ YearOf(zip_paths[i]) \in DOMAIN walk
            /\ (walk[YearOf(zip_paths[i])] = "returned"
                   => YearOf(zip_paths[i]) \in DOMAIN files)

C3_StateInv ==
    /\ \A y \in DOMAIN files :
          /\ y \in DOMAIN returned
          /\ walk[y] = "returned"
          /\ files[y] = returned[y]
    /\ \A y \in DOMAIN walk :
          walk[y] \in {"walking", "raised"} => y \notin DOMAIN files /\ y \notin DOMAIN returned
    /\ \A i \in DOMAIN zip_paths :
          i < zi => YearOf(zip_paths[i]) \in DOMAIN files

C3_Step == \A y \in DOMAIN files : y \in DOMAIN files' /\ files'[y] = files[y]

\* C3: a year's file exists only once process_zip_file has returned that
\* year's table, and holds that table; it is there before the next archive
\* is walked; a year whose walk raised has no file and no table, and a file
\* once written is never changed.
C3_AtomicOutput == [](C3_StateInv) /\ [][C3_Step]_vars

\* The second year failed with one CSV already in the accumulator, after
\* the first year was written.
C3_Witness ==
    /\ pc = "crashed"
    /\ zi = 2
    /\ dfs # <<>>
    /\ walk[year] = "raised"
    /\ YearOf(zip_paths[1]) \in DOMAIN files
    /\ files[YearOf(zip_paths[1])] # <<>>

\* The order the claim gives: outer name first, then inner name.
Before(a, b) ==
    \/ LexLess(a.outer, b.outer)
    \/ a.outer = b.outer /\ LexLess(a.name, b.name)

Rank(e) == Cardinality({x \in CsvEntries : Before(x, e)}) + 1

EntryAt(k) == CHOOSE e \in CsvEntries : Rank(e) = k

ExpectedTable ==
    Flatten([k \in 1..Cardinality(CsvEntries) |->
                process_csv_file(EntryAt(k).data, selected_sites).rows])

\* C8: the CSVs processed are the entries named *.csv, outer entries in name
\* order and, within an inner archive, in name order; other entries are
\* passed over; the table returned is the concatenation of the per-CSV
\* tables in that order, whatever order the archives list their entries in.
C8_TraversalOrder ==
    /\ \A i, j \in DOMAIN calls :
          i < j => Before([outer |-> calls[i][1], name |-> calls[i][2]],
                          [outer |-> calls[j][1], name |-> calls[j][2]])
    /\ \A i \in DOMAIN calls :
          \E e \in CsvEntries : calls[i] = <<e.outer, e.name>>
    /\ pc \in {"concat", "save"} =>
          /\ Len(calls) = Cardinality(CsvEntries)
          /\ \A e \in CsvEntries : calls[Rank(e)] = <<e.outer, e.name>>
    /\ pc = "concat" => Flatten(dfs) = ExpectedTable
    /\ pc = "save" => returned[year] = ExpectedTable

\* A walk over two inner archives, three CSVs of different days and an
\* entry that is no CSV has returned.
C8_Witness ==
    /\ pc = "save"
    /\ Len(calls) = 3
    /\ calls[1][1] # calls[3][1]
    /\ seen # CsvEntries
    /\ \E a, b \in CsvEntries : a.outer = b.outer /\ a.data # b.data
    /\ returned[year] # <<>>

=============================================================================
